---- MODULE Spec2Model ----
(***************************************************************************)
(* The campaign-report pipeline of main.py as a state machine:             *)
(*   load_campaign_data -> check_data_columns -> clean_and_prepare_data    *)
(*   -> calculate_summary_stats -> generate_insights                       *)
(*   -> create_performance_chart -> create_powerpoint_report.              *)
(*                                                                         *)
(* Numbers are exact rationals [n |-> numerator, d |-> denominator] in     *)
(* lowest terms with d > 0.  d = 0 marks the IEEE specials pandas works    *)
(* with: NaN is 0/0 and the infinities are 1/0 and -1/0.  Cell texts of    *)
(* the CSV file are sequences of one-character strings, so that            *)
(* pd.to_numeric and str.replace are computed character by character.      *)
(***************************************************************************)
EXTENDS Integers, Sequences, FiniteSets, TLC

----------------------------------------------------------------------------
(* Exact arithmetic standing for pandas' float64 columns                   *)

Abs(x) == IF x < 0 THEN -x ELSE x

Sign(x) == IF x < 0 THEN -1 ELSE IF x > 0 THEN 1 ELSE 0

RECURSIVE GCD(_, _)
GCD(a, b) == IF b = 0 THEN a ELSE GCD(b, a % b)

\* floor division (TLC's \div floors; spelled out so the sign cases are explicit)
FloorDiv(a, b) == a \div b

NaN == [n |-> 0, d |-> 0]

Inf(s) == [n |-> s, d |-> 0]

IsNaN(x) == x.d = 0 /\ x.n = 0

IsFinite(x) == x.d # 0

\* the rational a/b in lowest terms, b # 0
Rat(a, b) ==
    LET g == GCD(Abs(a), Abs(b))
        s == IF b < 0 THEN -1 ELSE 1
    IN  [n |-> s * (a \div g), d |-> s * (b \div g)]

Num(k) == [n |-> k, d |-> 1]

RAdd(x, y) ==
    IF ~IsFinite(x) \/ ~IsFinite(y) THEN NaN
    ELSE Rat(x.n * y.d + y.n * x.d, x.d * y.d)

RMul(x, y) ==
    IF ~IsFinite(x) \/ ~IsFinite(y) THEN NaN
    ELSE Rat(x.n * y.n, x.d * y.d)

\* float division: x/0 is +-inf, 0/0 is NaN, no exception (numpy semantics)
RDiv(x, y) ==
    IF ~IsFinite(x) \/ ~IsFinite(y) THEN NaN
    ELSE IF y.n = 0 THEN Inf(Sign(x.n))
    ELSE Rat(x.n * y.d, x.d * y.n)

\* comparisons with NaN are False
REq(x, y) == IsFinite(x) /\ IsFinite(y) /\ x = y

RLess(x, y) == IsFinite(x) /\ IsFinite(y) /\ x.n * y.d < y.n * x.d

RLeq(x, y) == IsFinite(x) /\ IsFinite(y) /\ x.n * y.d <= y.n * x.d

\* int(x): truncation toward zero
Trunc(x) == Sign(x.n) * (Abs(x.n) \div x.d)

\* .round(2): round half to even at the second decimal; NaN stays NaN
Round2(x) ==
    IF ~IsFinite(x) THEN x
    ELSE LET whole == FloorDiv(x.n, x.d)
             part  == 100 * (x.n - whole * x.d)
             q     == FloorDiv(part, x.d)
             r2    == 2 * (part - q * x.d)
             k     == IF r2 > x.d THEN q + 1
                      ELSE IF r2 < x.d THEN q
                      ELSE IF q % 2 = 0 THEN q ELSE q + 1
         IN  Rat(100 * whole + k, 100)

\* Series.sum(): NaN entries are skipped, the empty sum is 0
RECURSIVE SumSeq(_)
SumSeq(s) ==
    IF s = <<>> THEN Num(0)
    ELSE IF IsNaN(Head(s)) THEN SumSeq(Tail(s))
    ELSE RAdd(Head(s), SumSeq(Tail(s)))

NotNaN(x) == ~IsNaN(x)

\* Series.mean(): NaN entries are skipped, the mean of nothing is NaN
MeanSeq(s) ==
    LET kept == SelectSeq(s, NotNaN)
    IN  IF kept = <<>> THEN NaN ELSE RDiv(SumSeq(kept), Num(Len(kept)))

----------------------------------------------------------------------------
(* Cell texts and pd.to_numeric(errors='coerce')                           *)

Digits == {"0", "1", "2", "3", "4", "5", "6", "7", "8", "9"}

DigitVal(c) ==
    CASE c = "0" -> 0 [] c = "1" -> 1 [] c = "2" -> 2 [] c = "3" -> 3
      [] c = "4" -> 4 [] c = "5" -> 5 [] c = "6" -> 6 [] c = "7" -> 7
      [] c = "8" -> 8 [] c = "9" -> 9

IsDigit(c) == c \in Digits

IsPoint(c) == c = "."

RECURSIVE DigitsToNat(_)
DigitsToNat(s) ==
    IF s = <<>> THEN 0
    ELSE 10 * DigitsToNat(SubSeq(s, 1, Len(s) - 1)) + DigitVal(s[Len(s)])

RECURSIVE Pow10(_)
Pow10(k) == IF k = 0 THEN 1 ELSE 10 * Pow10(k - 1)

\* number of characters after the first "." of s (0 when there is none)
RECURSIVE AfterPoint(_)
AfterPoint(s) ==
    IF s = <<>> THEN 0
    ELSE IF Head(s) = "." THEN Len(s) - 1
    ELSE AfterPoint(Tail(s))

\* pd.to_numeric(cell, errors='coerce'): [sign] digits [. digits]; an empty
\* cell (NaN from read_csv) and every other text become NaN
ToNumeric(text) ==
    LET signed == text # <<>> /\ text[1] \in {"-", "+"}
        body   == IF signed THEN Tail(text) ELSE text
        digs   == SelectSeq(body, IsDigit)
        points == SelectSeq(body, IsPoint)
        wellFormed == /\ digs # <<>>
                      /\ Len(points) <= 1
                      /\ Len(digs) + Len(points) = Len(body)
        mag    == Rat(DigitsToNat(digs), Pow10(AfterPoint(body)))
    IN  IF ~wellFormed THEN NaN
        ELSE IF signed /\ text[1] = "-" THEN RMul(Num(-1), mag)
        ELSE mag

NotCurrencyMark(c) == c \notin {"$", ","}

\* .astype(str).str.replace('$','').str.replace(',','')
StripCurrency(text) == SelectSeq(text, NotCurrencyMark)

----------------------------------------------------------------------------
(* The state of one run of main()                                          *)

VARIABLES
    file,       \* the input named by --input: whether it exists, parses, and its table
    pc,         \* the statement of main() the run is at, or how it ended
    raw,        \* the DataFrame load_campaign_data returned
    colmap,     \* the mapping check_data_columns returned
    clean,      \* the DataFrame clean_and_prepare_data returned
    summary,    \* the dict calculate_summary_stats returned
    insights,   \* the list generate_insights returned
    chart,      \* the per-campaign totals drawn into campaign_performance.png
    report,     \* the slides saved to campaign_report.pptx
    stdout      \* the lines printed so far

vars == <<file, pc, raw, colmap, clean, summary, insights, chart, report, stdout>>

\* the value of a variable whose statement has not run: nothing under any key
Unset == <<>>

IsSet(v) == DOMAIN v # {}

----------------------------------------------------------------------------
(* check_data_columns                                                      *)

Fields == {"campaign", "date", "impressions", "clicks", "spend", "revenue"}

Candidates(f) ==
    CASE f = "campaign"    -> <<"Campaign_ID", "campaign", "Campaign", "campaign_id">>
      [] f = "date"        -> <<"Date", "date", "timestamp", "Date_Stamp">>
      [] f = "impressions" -> <<"Impressions", "impressions", "views", "Views">>
      [] f = "clicks"      -> <<"Clicks", "clicks", "click_count">>
      [] f = "spend"       -> <<"Acquisition_Cost", "Spend", "spend", "cost", "Cost">>
      [] f = "revenue"     -> <<"ROI", "Revenue", "revenue", "sales", "conversion_value">>

NoMatch == ""

\* a variant of the candidate loop without its break: the last hit wins
RECURSIVE ScanNoBreak(_, _)
ScanNoBreak(cands, cols) ==
    IF cands = <<>> THEN NoMatch
    ELSE LET later == ScanNoBreak(Tail(cands), cols)
         IN  IF later # NoMatch THEN later
             ELSE IF Head(cands) \in cols THEN Head(cands)
             ELSE NoMatch

\* for col in [...]: if col in data.columns: column_mapping[f] = col; break
RECURSIVE Scan(_, _)
Scan(cands, cols) ==
    IF cands = <<>> THEN NoMatch
    ELSE IF Head(cands) \in cols THEN Head(cands)
    ELSE Scan(Tail(cands), cols)

check_data_columns(cols) ==
    LET found == {f \in Fields : Scan(Candidates(f), cols) # NoMatch}
    IN  [f \in found |-> Scan(Candidates(f), cols)]

----------------------------------------------------------------------------
(* clean_and_prepare_data                                                  *)

\* a required list that also asks for revenue
RequiredWithRevenue == <<"campaign", "date", "impressions", "clicks", "spend", "revenue">>

Required == <<"campaign", "date", "impressions", "clicks", "spend">>

\* the name a raw column carries after the renames of lines 62-63
Renamed(c, cmap) ==
    IF \E f \in DOMAIN cmap : cmap[f] = c
    THEN CHOOSE f \in DOMAIN cmap : cmap[f] = c
    ELSE c

\* the raw columns that carry the name f after the renames
Sources(f, cols, cmap) == {c \in cols : Renamed(c, cmap) = f}

\* the required fields absent after the renames, in the order of the list
MissingRequired(cols, cmap) ==
    LET absent(f) == Sources(f, cols, cmap) = {}
    IN  SelectSeq(Required, absent)

\* data[f] is a DataFrame, not a Series, when two columns carry the name f:
\* .str (line 71) and pd.to_numeric (73-78) raise on it
Ambiguous(f, cols, cmap) == Cardinality(Sources(f, cols, cmap)) > 1

CleanRaises(cols, cmap) ==
    \E f \in {"impressions", "clicks", "spend", "revenue"} : Ambiguous(f, cols, cmap)

Column(f, cols, cmap) == CHOOSE c \in Sources(f, cols, cmap) : TRUE

RevenueMultiplier == Rat(5, 2)

Floor001 == Rat(1, 100)

\* lines 71-80 on one row: the coerced values, before dropna
Coerced(row, idx, cols, cmap) ==
    LET cell(f) == row[Column(f, cols, cmap)]
        spend   == ToNumeric(StripCurrency(cell("spend")))
    IN  [idx         |-> idx,
         campaign    |-> cell("campaign"),
         date        |-> cell("date"),
         impressions |-> ToNumeric(cell("impressions")),
         clicks      |-> ToNumeric(cell("clicks")),
         spend       |-> spend,
         revenue     |-> IF Sources("revenue", cols, cmap) # {}
                         THEN ToNumeric(cell("revenue"))
                         ELSE RMul(spend, RevenueMultiplier)]

\* a dropna over all four numeric columns
CompleteWithRevenue(r) ==
    ~IsNaN(r.impressions) /\ ~IsNaN(r.clicks) /\ ~IsNaN(r.spend) /\ ~IsNaN(r.revenue)

\* dropna(subset=['impressions','clicks','spend'])
Complete(r) == ~IsNaN(r.impressions) /\ ~IsNaN(r.clicks) /\ ~IsNaN(r.spend)

\* data.loc[data[f] == 0, f] = v
GuardZero(x, v) == IF REq(x, Num(0)) THEN v ELSE x

\* the guard with revenue synthesized again from the guarded spend
GuardedThenSynthesized(r) ==
    LET imp == GuardZero(r.impressions, Num(1))
        clk == GuardZero(r.clicks, Num(1))
        spd == GuardZero(r.spend, Floor001)
        rev == RMul(spd, RevenueMultiplier)
    IN  [idx |-> r.idx, campaign |-> r.campaign, date |-> r.date,
         impressions |-> imp, clicks |-> clk, spend |-> spd,
         revenue |-> rev,
         ctr  |-> RDiv(clk, imp),
         cpc  |-> RDiv(spd, clk),
         roas |-> RDiv(rev, spd)]

\* lines 84-90 on one kept row
Guarded(r) ==
    LET imp == GuardZero(r.impressions, Num(1))
        clk == GuardZero(r.clicks, Num(1))
        spd == GuardZero(r.spend, Floor001)
    IN  [idx |-> r.idx, campaign |-> r.campaign, date |-> r.date,
         impressions |-> imp, clicks |-> clk, spend |-> spd,
         revenue |-> r.revenue,
         ctr  |-> RDiv(clk, imp),
         cpc  |-> RDiv(spd, clk),
         roas |-> RDiv(r.revenue, spd)]

\* pd.to_datetime accepts an empty cell (NaT) and, of the texts used here,
\* the all-digit ones
DateParses(text) == Len(SelectSeq(text, IsDigit)) = Len(text)

\* lines 92-95: the column is converted as a whole, or left as it was
WithDates(rows, ambiguousDate) ==
    LET ok == ~ambiguousDate /\ \A i \in 1..Len(rows) : DateParses(rows[i].date)
    IN  [i \in 1..Len(rows) |->
            [rows[i] EXCEPT !.date = [text |-> rows[i].date, parsed |-> ok]]]

clean_and_prepare_data(table, cmap) ==
    LET cols    == table.columns
        coerced == [i \in 1..Len(table.rows) |-> Coerced(table.rows[i], i, cols, cmap)]
        kept    == SelectSeq(coerced, Complete)
        guarded == [i \in 1..Len(kept) |-> Guarded(kept[i])]
    IN  [rows |-> WithDates(guarded, Ambiguous("date", cols, cmap)),
         campaignColumns |-> Cardinality(Sources("campaign", cols, cmap))]

----------------------------------------------------------------------------
(* calculate_summary_stats                                                 *)

\* code points of the characters campaign identifiers are written with
Ord(c) ==
    CASE c = "A" -> 65 [] c = "B" -> 66 [] c = "C" -> 67 [] c = "D" -> 68
      [] c = "E" -> 69 [] c = "F" -> 70 [] c = "G" -> 71 [] c = "H" -> 72
      [] c \in Digits -> 48 + DigitVal(c)
      [] OTHER -> 0

\* str < str
RECURSIVE LexLess(_, _)
LexLess(s, t) ==
    IF t = <<>> THEN FALSE
    ELSE IF s = <<>> THEN TRUE
    ELSE IF Ord(Head(s)) # Ord(Head(t)) THEN Ord(Head(s)) < Ord(Head(t))
    ELSE LexLess(Tail(s), Tail(t))

\* the keys of a set in ascending order
RECURSIVE SortKeys(_)
SortKeys(S) ==
    IF S = {} THEN <<>>
    ELSE LET m == CHOOSE x \in S : \A y \in S : y = x \/ LexLess(x, y)
         IN  <<m>> \o SortKeys(S \ {m})

\* an empty campaign cell is NaN, and groupby drops NaN keys
NoCampaign == <<>>

\* data.groupby('campaign'): one group per non-NaN key, the keys sorted
GroupKeys(rows) ==
    SortKeys({rows[i].campaign : i \in 1..Len(rows)} \ {NoCampaign})

FieldOf(rows, f) == [i \in 1..Len(rows) |-> rows[i][f]]

\* .agg({'roas': 'mean', 'revenue': 'sum', 'spend': 'sum'}).round(2)
CampaignStats(rows) ==
    LET keys == GroupKeys(rows)
        grp(k) == LET in(r) == r.campaign = k IN SelectSeq(rows, in)
    IN  [i \in 1..Len(keys) |->
            [campaign |-> keys[i],
             roas     |-> Round2(MeanSeq(FieldOf(grp(keys[i]), "roas"))),
             revenue  |-> Round2(SumSeq(FieldOf(grp(keys[i]), "revenue"))),
             spend    |-> Round2(SumSeq(FieldOf(grp(keys[i]), "spend")))]]

\* Series.idxmax(): the first position of the largest non-NaN value; 0 when
\* every value is NaN
IdxMax(vals) ==
    LET cand == {i \in 1..Len(vals) : /\ ~IsNaN(vals[i])
                                      /\ \A j \in 1..Len(vals) :
                                            IsNaN(vals[j]) \/ RLeq(vals[j], vals[i])}
    IN  IF cand = {} THEN 0 ELSE CHOOSE i \in cand : \A j \in cand : i <= j

IdxMin(vals) ==
    LET cand == {i \in 1..Len(vals) : /\ ~IsNaN(vals[i])
                                      /\ \A j \in 1..Len(vals) :
                                            IsNaN(vals[j]) \/ RLeq(vals[i], vals[j])}
    IN  IF cand = {} THEN 0 ELSE CHOOSE i \in cand : \A j \in cand : i <= j

Without(s, i) == SubSeq(s, 1, i - 1) \o SubSeq(s, i + 1, Len(s))

\* a selection that takes the first n in index order, whatever their revenue
FirstN(n, stats) == SubSeq(stats, 1, IF n < Len(stats) THEN n ELSE Len(stats))

\* DataFrame.nlargest(n, 'revenue'), keep='first': descending, equal values
\* in index order
RECURSIVE NLargest(_, _)
NLargest(n, stats) ==
    IF n = 0 \/ stats = <<>> THEN <<>>
    ELSE LET i == IdxMax(FieldOf(stats, "revenue"))
         IN  <<stats[i]>> \o NLargest(n - 1, Without(stats, i))

TopN == 5

\* groupby raises when two columns are named 'campaign' (line 109)
SummaryRaisesOnKey(data) == data.campaignColumns > 1

\* lines 101-107
Totals(rows) ==
    [total_impressions |-> Trunc(SumSeq(FieldOf(rows, "impressions"))),
     total_clicks      |-> Trunc(SumSeq(FieldOf(rows, "clicks"))),
     total_spend       |-> SumSeq(FieldOf(rows, "spend")),
     total_revenue     |-> SumSeq(FieldOf(rows, "revenue")),
     avg_ctr           |-> MeanSeq(FieldOf(rows, "ctr")),
     avg_cpc           |-> MeanSeq(FieldOf(rows, "cpc")),
     avg_roas          |-> MeanSeq(FieldOf(rows, "roas"))]

\* idxmax of an all-NaN roas column gives no label, and .loc on it raises
\* (lines 116-118)
SummaryRaisesOnRoas(rows) ==
    LET stats == CampaignStats(rows)
    IN  stats # <<>> /\ IdxMax(FieldOf(stats, "roas")) = 0

\* lines 115-125
Selection(rows) ==
    LET stats == CampaignStats(rows)
        best  == stats[IdxMax(FieldOf(stats, "roas"))]
        worst == stats[IdxMin(FieldOf(stats, "roas"))]
    IN  [best_campaign   |-> best.campaign,
         best_roas       |-> best.roas,
         worst_campaign  |-> worst.campaign,
         worst_roas      |-> worst.roas,
         top_5_campaigns |-> NLargest(TopN, stats)]

Merge(f, g) ==
    [k \in DOMAIN f \cup DOMAIN g |-> IF k \in DOMAIN f THEN f[k] ELSE g[k]]

\* a summary that fills the selection keys with sentinels when there is no group
SummaryWithDefaults(rows) ==
    IF CampaignStats(rows) = <<>>
    THEN Merge(Totals(rows),
               [best_campaign |-> NoCampaign, best_roas |-> NaN,
                worst_campaign |-> NoCampaign, worst_roas |-> NaN,
                top_5_campaigns |-> <<>>])
    ELSE Merge(Totals(rows), Selection(rows))

calculate_summary_stats(rows) ==
    IF CampaignStats(rows) = <<>> THEN Totals(rows)
    ELSE Merge(Totals(rows), Selection(rows))

----------------------------------------------------------------------------
(* generate_insights, create_performance_chart, create_powerpoint_report   *)

InsightKeys ==
    {"total_impressions", "total_clicks", "total_spend", "total_revenue",
     "avg_ctr", "avg_cpc", "best_campaign", "best_roas", "worst_campaign",
     "worst_roas", "avg_roas"}

\* s[key] raises KeyError for a key the summary lacks
InsightsRaise(s) == ~(InsightKeys \subseteq DOMAIN s)

\* the seven sentences, by the values formatted into them ({:.2f} keeps two
\* decimals)
generate_insights(s) ==
    << <<s.total_impressions, s.total_clicks>>,
       <<Round2(s.total_spend), Round2(s.total_revenue)>>,
       <<Round2(RMul(s.avg_ctr, Num(100)))>>,
       <<Round2(s.avg_cpc)>>,
       <<s.best_campaign, Round2(s.best_roas)>>,
       <<s.worst_campaign, Round2(s.worst_roas)>>,
       <<Round2(s.avg_roas)>> >>

ChartLimit == 15

\* groupby('campaign')[['impressions','clicks','revenue']].sum(), cut to the
\* 15 largest revenues
create_performance_chart(rows) ==
    LET keys == GroupKeys(rows)
        grp(k) == LET in(r) == r.campaign = k IN SelectSeq(rows, in)
        totals == [i \in 1..Len(keys) |->
                      [campaign    |-> keys[i],
                       impressions |-> SumSeq(FieldOf(grp(keys[i]), "impressions")),
                       clicks      |-> SumSeq(FieldOf(grp(keys[i]), "clicks")),
                       revenue     |-> SumSeq(FieldOf(grp(keys[i]), "revenue"))]]
    IN  IF Len(totals) > ChartLimit THEN NLargest(ChartLimit, totals) ELSE totals

ExecutiveInsights == 4

create_powerpoint_report(s, ins, bars) ==
    [title   |-> "Campaign Performance Report",
     summary |-> SubSeq(ins, 1, IF Len(ins) < ExecutiveInsights
                                THEN Len(ins) ELSE ExecutiveInsights),
     metrics |-> <<s.total_impressions, s.total_clicks, Round2(s.total_spend),
                   Round2(s.total_revenue), Round2(RMul(s.avg_ctr, Num(100))),
                   Round2(s.avg_cpc), Round2(s.avg_roas)>>,
     picture |-> bars,
     top     |-> IF "top_5_campaigns" \in DOMAIN s
                 THEN [i \in 1..Len(s.top_5_campaigns) |->
                          <<s.top_5_campaigns[i].campaign,
                            s.top_5_campaigns[i].revenue,
                            s.top_5_campaigns[i].roas>>]
                 ELSE <<>>]

----------------------------------------------------------------------------
(* The input files the runs are started on                                 *)

EmptyTable == [columns |-> {}, rows |-> <<>>]

BaseColumns == {"Campaign", "Date", "Impressions", "Clicks", "Spend"}

\* names added to a header: candidates of every field, a name differing from
\* a candidate only in case, and a column no field asks for
ExtraColumns ==
    {"Campaign_ID", "campaign_id", "date", "impressions", "click_count",
     "Acquisition_Cost", "spend", "Cost", "ROI", "revenue", "CLICKS", "Notes"}

MaxExtraColumns == 2

MaxDroppedColumns == 1

MaxCandidatesPresent == 2

\* the subsets of S of at most n elements
RECURSIVE SubsetsUpTo(_, _)
SubsetsUpTo(S, n) ==
    IF n = 0 THEN {{}}
    ELSE LET smaller == SubsetsUpTo(S, n - 1)
         IN  smaller \cup {t \cup {x} : t \in smaller, x \in S}

CandidateSet(f) == {Candidates(f)[i] : i \in 1..Len(Candidates(f))}

\* the base header with some columns left out and some others added
ExtendedHeaders ==
    {(BaseColumns \ out) \cup extra :
        out \in SubsetsUpTo(BaseColumns, MaxDroppedColumns),
        extra \in SubsetsUpTo(ExtraColumns, MaxExtraColumns)}

\* the base header with the columns of one field replaced by any few of that
\* field's candidates
CandidateHeaders ==
    UNION {{(BaseColumns \ CandidateSet(f)) \cup present :
               present \in SubsetsUpTo(CandidateSet(f), MaxCandidatesPresent)} :
           f \in Fields}

\* the headers over one row whose every cell reads 1
SchemaTables ==
    {[columns |-> cols, rows |-> << [c \in cols |-> <<"1">>] >>] :
        cols \in ExtendedHeaders \cup CandidateHeaders}

Row(cmp, dat, imp, clk, spd) ==
    [c \in BaseColumns |->
        CASE c = "Campaign" -> cmp [] c = "Date" -> dat [] c = "Impressions" -> imp
          [] c = "Clicks" -> clk [] c = "Spend" -> spd]

RowWithRevenue(cmp, dat, imp, clk, spd, rev) ==
    [c \in BaseColumns \cup {"Revenue"} |->
        IF c = "Revenue" THEN rev ELSE Row(cmp, dat, imp, clk, spd)[c]]

ADate == <<"2", "0", "2", "4">>

CampaignCells == {<<"B">>, <<"A">>, NoCampaign}

ImpressionCells == {<<"0">>, <<"0", ".", "5">>, <<"x">>}

ClickCells == {<<"1">>, <<"-", "1">>, <<>>}

SpendCells == {<<"$", "1", ",", "0", "0", "0">>, <<"0">>, <<"0", ".", "0", "0", "4">>, <<"x">>}

RevenueCells == {<<"5">>, <<"-", "1">>, <<"x">>}

FirstRows ==
    {Row(cmp, ADate, imp, clk, spd) :
        cmp \in CampaignCells, imp \in ImpressionCells,
        clk \in ClickCells, spd \in SpendCells}

FirstRowsWithRevenue ==
    {RowWithRevenue(r["Campaign"], ADate, r["Impressions"], r["Clicks"], r["Spend"], rev) :
        r \in FirstRows, rev \in RevenueCells}

\* the rows that may follow the first one
NextRows ==
    {Row(<<"A">>, ADate, <<"3">>, <<"1">>, <<"2">>),
     Row(<<"A">>, <<"x">>, <<"1", ".", "5">>, <<"0">>, <<"0">>),
     Row(<<"C">>, ADate, <<"1">>, <<"x">>, <<"1">>)}

NextRowsWithRevenue ==
    {RowWithRevenue(<<"A">>, ADate, <<"3">>, <<"1">>, <<"2">>, <<"3">>),
     RowWithRevenue(<<"A">>, <<"x">>, <<"1", ".", "5">>, <<"0">>, <<"0">>, <<>>),
     RowWithRevenue(<<"C">>, ADate, <<"1">>, <<"x">>, <<"1">>, <<"3">>)}

MaxFollowingRows == 1

RECURSIVE SeqsUpTo(_, _)
SeqsUpTo(S, n) ==
    IF n = 0 THEN {<<>>}
    ELSE LET shorter == SeqsUpTo(S, n - 1)
         IN  shorter \cup {Append(q, x) : q \in shorter, x \in S}

\* tables over the base header, without and with a revenue column: no row, or
\* a first row of any cells and up to MaxFollowingRows rows after it
ValueTables ==
    {[columns |-> BaseColumns, rows |-> rs] :
        rs \in {<<>>} \cup {<<r>> \o q : r \in FirstRows,
                                         q \in SeqsUpTo(NextRows, MaxFollowingRows)}}
    \cup
    {[columns |-> BaseColumns \cup {"Revenue"}, rows |-> rs] :
        rs \in {<<>>} \cup {<<r>> \o q : r \in FirstRowsWithRevenue,
                                         q \in SeqsUpTo(NextRowsWithRevenue, MaxFollowingRows)}}

\* the campaign a row of a rollup table introduces; not in sorted order
OwnCampaign == <<"B", "A", "D", "C", "F", "E", "H", "G">>

RollupRows == 6

MergingRows == 2

RollupRevenues == {<<"1">>, <<"0", ".", "0", "0", "4">>}

\* tables of RollupRows rows for the rollups: each row is of its own campaign,
\* except that the MergingRows rows after the first may be of the first row's;
\* each has one of two revenues
RollupTables ==
    {[columns |-> BaseColumns \cup {"Revenue"},
      rows |-> [i \in 1..RollupRows |->
                  RowWithRevenue(<<OwnCampaign[IF i \in merged THEN 1 ELSE i]>>, ADate,
                                 <<"1">>, <<"1">>, <<"1">>, rev[i])]] :
        merged \in SUBSET (2..(1 + MergingRows)), rev \in [1..RollupRows -> RollupRevenues]}

Files ==
    {[exists |-> FALSE, readable |-> FALSE, table |-> EmptyTable],
     [exists |-> TRUE, readable |-> FALSE, table |-> EmptyTable]}
    \cup {[exists |-> TRUE, readable |-> TRUE, table |-> t] :
             t \in SchemaTables \cup ValueTables \cup RollupTables}

----------------------------------------------------------------------------
(* main(): one action per call                                             *)

Init ==
    /\ file \in Files
    /\ pc = "load"
    /\ raw = Unset
    /\ colmap = Unset
    /\ clean = Unset
    /\ summary = Unset
    /\ insights = Unset
    /\ chart = Unset
    /\ report = Unset
    /\ stdout = <<>>

\* sys.exit(1) after a printed message
Exit(line) ==
    /\ pc' = "exit"
    /\ stdout' = Append(stdout, line)

\* an exception nothing catches: the traceback, and main() is over
Raise ==
    /\ pc' = "error"
    /\ UNCHANGED stdout

\* lines 13-22
LoadCampaignData ==
    /\ pc = "load"
    /\ IF ~file.exists
       THEN Exit(<<"ERROR: Can't find file at">>) /\ UNCHANGED raw
       ELSE IF ~file.readable
       THEN Exit(<<"ERROR reading CSV file:">>) /\ UNCHANGED raw
       ELSE /\ raw' = file.table
            /\ pc' = "resolve"
            /\ UNCHANGED stdout
    /\ UNCHANGED <<file, colmap, clean, summary, insights, chart, report>>

\* line 223
CheckDataColumns ==
    /\ pc = "resolve"
    /\ colmap' = check_data_columns(raw.columns)
    /\ pc' = "clean"
    /\ UNCHANGED <<file, raw, clean, summary, insights, chart, report, stdout>>

\* line 224
CleanAndPrepareData ==
    /\ pc = "clean"
    /\ LET missing == MissingRequired(raw.columns, colmap)
       IN  IF missing # <<>>
           THEN Exit(<<"ERROR: Missing required column", Head(missing)>>)
                   /\ UNCHANGED clean
           ELSE IF CleanRaises(raw.columns, colmap)
           THEN Raise /\ UNCHANGED clean
           ELSE /\ clean' = clean_and_prepare_data(raw, colmap)
                /\ pc' = "summarise"
                /\ UNCHANGED stdout
    /\ UNCHANGED <<file, raw, colmap, summary, insights, chart, report>>

\* line 225
CalculateSummaryStats ==
    /\ pc = "summarise"
    /\ IF SummaryRaisesOnKey(clean) \/ SummaryRaisesOnRoas(clean.rows)
       THEN Raise /\ UNCHANGED summary
       ELSE /\ summary' = calculate_summary_stats(clean.rows)
            /\ pc' = "insights"
            /\ UNCHANGED stdout
    /\ UNCHANGED <<file, raw, colmap, clean, insights, chart, report>>

\* line 226
GenerateInsights ==
    /\ pc = "insights"
    /\ IF InsightsRaise(summary)
       THEN Raise /\ UNCHANGED insights
       ELSE /\ insights' = generate_insights(summary)
            /\ pc' = "chart"
            /\ UNCHANGED stdout
    /\ UNCHANGED <<file, raw, colmap, clean, summary, chart, report>>

\* lines 228-229
CreatePerformanceChart ==
    /\ pc = "chart"
    /\ chart' = [path |-> "campaign_performance.png",
                 bars |-> create_performance_chart(clean.rows)]
    /\ pc' = "report"
    /\ UNCHANGED <<file, raw, colmap, clean, summary, insights, report, stdout>>

\* lines 231-236
CreatePowerpointReport ==
    /\ pc = "report"
    /\ report' = [path   |-> "campaign_report.pptx",
                  slides |-> create_powerpoint_report(summary, insights, chart.bars)]
    /\ pc' = "done"
    /\ stdout' = stdout \o << <<"Analysis complete.">>, <<"Report:">>, <<"Chart:">> >>
    /\ UNCHANGED <<file, raw, colmap, clean, summary, insights, chart>>

Next ==
    \/ LoadCampaignData
    \/ CheckDataColumns
    \/ CleanAndPrepareData
    \/ CalculateSummaryStats
    \/ GenerateInsights
    \/ CreatePerformanceChart
    \/ CreatePowerpointReport

Spec == Init /\ [][Next]_vars

----------------------------------------------------------------------------
(* Vocabulary of the properties                                            *)

Cleaned == IsSet(clean)

Summarised == IsSet(summary)

CanonicalRows == clean.rows

\* the text of raw row i under the column the mapping gives field f
RawCell(i, f) == raw.rows[i][colmap[f]]

RawSpend(i) == ToNumeric(StripCurrency(RawCell(i, "spend")))

FailsCoercion(i) ==
    \/ IsNaN(ToNumeric(RawCell(i, "impressions")))
    \/ IsNaN(ToNumeric(RawCell(i, "clicks")))
    \/ IsNaN(RawSpend(i))

KeptIndices == {CanonicalRows[j].idx : j \in 1..Len(CanonicalRows)}

AtLeast(x, y) == RLeq(y, x)

NonNegativeNumber(x) == IsFinite(x) /\ x.n >= 0

SelectionKeys ==
    {"best_campaign", "best_roas", "worst_campaign", "worst_roas", "top_5_campaigns"}

CampaignsOf(rows) == {rows[i].campaign : i \in 1..Len(rows)} \ {NoCampaign}

RowsOf(k) == LET in(r) == r.campaign = k IN SelectSeq(CanonicalRows, in)

ExactRevenue(k) == SumSeq(FieldOf(RowsOf(k), "revenue"))

RoundedRevenue(k) == Round2(ExactRevenue(k))

RoundedMeanRoas(k) == Round2(MeanSeq(FieldOf(RowsOf(k), "roas")))

Min(a, b) == IF a < b THEN a ELSE b

----------------------------------------------------------------------------
(* C1 *)

\* C1: every record of the canonical table has impressions >= 1,
\* clicks >= 1 and spend >= 0.01, whatever the raw values were.
C1_GuardInvariant ==
    Cleaned =>
        \A j \in 1..Len(CanonicalRows) :
            /\ AtLeast(CanonicalRows[j].impressions, Num(1))
            /\ AtLeast(CanonicalRows[j].clicks, Num(1))
            /\ AtLeast(CanonicalRows[j].spend, Floor001)

(* C2 *)

\* C2: ctr, cpc and roas of every record of the canonical table are defined
\* (not NaN, not infinite) and non-negative, with a mapped or a synthesized
\* revenue.
C2_DerivedFiniteNonNegative ==
    Cleaned =>
        \A j \in 1..Len(CanonicalRows) :
            /\ NonNegativeNumber(CanonicalRows[j].ctr)
            /\ NonNegativeNumber(CanonicalRows[j].cpc)
            /\ NonNegativeNumber(CanonicalRows[j].roas)

(* C3 *)

\* the campaign identifiers in the order their first records appear
RECURSIVE FirstAppearanceKeys(_)
FirstAppearanceKeys(rows) ==
    IF rows = <<>> THEN <<>>
    ELSE LET before == FirstAppearanceKeys(SubSeq(rows, 1, Len(rows) - 1))
             k      == rows[Len(rows)].campaign
         IN  IF k = NoCampaign \/ \E i \in 1..Len(before) : before[i] = k
             THEN before
             ELSE Append(before, k)

\* the campaigns tied at the given rounded mean roas, by first appearance
FirstTied(v) ==
    LET order == FirstAppearanceKeys(CanonicalRows)
        tied(k) == RoundedMeanRoas(k) = v
    IN  Head(SelectSeq(order, tied))

\* C3: best_campaign (worst_campaign) is, of the campaigns tied at the
\* largest (smallest) rounded mean roas, the one whose first record comes
\* earliest in the canonical table.
C3_TieFirstAppearance ==
    (Summarised /\ "best_campaign" \in DOMAIN summary) =>
        /\ summary.best_campaign = FirstTied(summary.best_roas)
        /\ summary.worst_campaign = FirstTied(summary.worst_roas)

(* C4 *)

TopListed == {summary.top_5_campaigns[i].campaign : i \in 1..Len(summary.top_5_campaigns)}

ExactRevenues == [k \in CampaignsOf(CanonicalRows) |-> ExactRevenue(k)]

RoundedRevenues == [k \in CampaignsOf(CanonicalRows) |-> RoundedRevenue(k)]

\* the shape of top_5_campaigns, for a given reading rev of the campaigns'
\* summed revenues
TopFiveBy(rev) ==
    LET top  == summary.top_5_campaigns
        keys == CampaignsOf(CanonicalRows)
    IN  /\ Len(top) = Min(TopN, Cardinality(keys))
        /\ Cardinality(TopListed) = Len(top)
        /\ TopListed \subseteq keys
        /\ \A i, j \in 1..Len(top) :
              i < j => RLeq(rev[top[j].campaign], rev[top[i].campaign])
        /\ \A k \in keys \ TopListed : \A l \in TopListed : ~RLess(rev[l], rev[k])
        /\ Cardinality(keys) < TopN => TopListed = keys

GuardedValue(v, floor) == IF v = Num(0) THEN floor ELSE v

\* the sum of terms[i] over the raw rows i that coerce
SumOverCoercing(terms) ==
    SumSeq([i \in 1..Len(raw.rows) |-> IF FailsCoercion(i) THEN Num(0) ELSE terms[i]])

RawImpressions ==
    [i \in 1..Len(raw.rows) |-> GuardedValue(ToNumeric(RawCell(i, "impressions")), Num(1))]

RawClicks ==
    [i \in 1..Len(raw.rows) |-> GuardedValue(ToNumeric(RawCell(i, "clicks")), Num(1))]

RawGuardedSpend ==
    [i \in 1..Len(raw.rows) |-> GuardedValue(RawSpend(i), Floor001)]

CampaignsOfCoercing ==
    {RawCell(i, "campaign") : i \in {k \in 1..Len(raw.rows) : ~FailsCoercion(k)}}

\* C5: a raw row is missing from the canonical table exactly when its
\* impressions, clicks or spend fails coercion; the kept rows stay in order,
\* once each; the totals are those of the coercing rows alone and every
\* campaign named by the summary or the chart is one of a coercing row.
C5_DroppedIffCoercionFails ==
    Cleaned =>
        /\ \A i \in 1..Len(raw.rows) : (i \notin KeptIndices) <=> FailsCoercion(i)
        /\ \A j, k \in 1..Len(CanonicalRows) :
              j < k => CanonicalRows[j].idx < CanonicalRows[k].idx
        /\ Summarised =>
              /\ summary.total_impressions = Trunc(SumOverCoercing(RawImpressions))
              /\ summary.total_clicks = Trunc(SumOverCoercing(RawClicks))
              /\ summary.total_spend = SumOverCoercing(RawGuardedSpend)
              /\ summary.avg_cpc = MeanSeq(FieldOf(CanonicalRows, "cpc"))
              /\ "best_campaign" \in DOMAIN summary =>
                    /\ summary.best_campaign \in CampaignsOfCoercing
                    /\ summary.worst_campaign \in CampaignsOfCoercing
                    /\ TopListed \subseteq CampaignsOfCoercing
        /\ IsSet(chart) =>
              \A b \in 1..Len(chart.bars) : chart.bars[b].campaign \in CampaignsOfCoercing

\* a first row dropped for a cell that does not coerce, the row after it
\* kept, and the summary computed from it
C5_Witness ==
    /\ Summarised
    /\ Len(raw.rows) = 2
    /\ FailsCoercion(1)
    /\ KeptIndices = {2}

(* C6 *)

RequiredFields == {"campaign", "date", "impressions", "clicks", "spend"}

LacksRequired == \E f \in RequiredFields : f \notin DOMAIN colmap

NothingProduced ==
    ~IsSet(clean) /\ ~IsSet(summary) /\ ~IsSet(insights) /\ ~IsSet(chart) /\ ~IsSet(report)

AfterClean == IsSet(raw) /\ pc \notin {"resolve", "clean"}

\* C6: once clean_and_prepare_data has run on a mapping that lacks a required
\* field, the run has exited with a message naming a missing field and has
\* produced nothing; on a mapping that lacks at most revenue it has not exited.
C6_MissingRequiredExits ==
    AfterClean =>
        /\ LacksRequired =>
              /\ pc = "exit"
              /\ stdout # <<>>
              /\ stdout[Len(stdout)][1] = "ERROR: Missing required column"
              /\ \E f \in RequiredFields :
                    /\ f \notin DOMAIN colmap
                    /\ stdout[Len(stdout)][2] = f
              /\ NothingProduced
        /\ ~LacksRequired => pc # "exit"

\* a header without a date column has ended the run, and a header without a
\* revenue column has not
C6_Witness ==
    /\ AfterClean
    /\ pc = "exit"
    /\ "date" \notin DOMAIN colmap
    /\ "revenue" \in DOMAIN colmap

(* C7 *)

PresentAt(f) == {i \in 1..Len(Candidates(f)) : Candidates(f)[i] \in raw.columns}

Resolved == IsSet(raw) /\ pc # "resolve"

\* C7: the mapping gives each field the earliest name of its candidate list
\* that is a column of the input, and no entry to a field none of whose
\* candidates is a column.
C7_EarliestCandidate ==
    Resolved =>
        \A f \in Fields :
            IF PresentAt(f) = {}
            THEN f \notin DOMAIN colmap
            ELSE /\ f \in DOMAIN colmap
                 /\ \E i \in PresentAt(f) :
                       /\ colmap[f] = Candidates(f)[i]
                       /\ \A j \in PresentAt(f) : i <= j

\* two candidates of one field present, the later one first in no list, and a
\* column that matches a candidate only up to case
C7_Witness ==
    /\ Resolved
    /\ Cardinality(PresentAt("campaign")) = 2
    /\ colmap["campaign"] = "Campaign"
    /\ "CLICKS" \in raw.columns
    /\ "clicks" \notin DOMAIN colmap

(* C8 *)

\* C8: the four totals are the exact sums of the canonical records' fields.
C8_TotalsExact ==
    Summarised =>
        /\ Num(summary.total_impressions) = SumSeq(FieldOf(CanonicalRows, "impressions"))
        /\ Num(summary.total_clicks) = SumSeq(FieldOf(CanonicalRows, "clicks"))
        /\ summary.total_spend = SumSeq(FieldOf(CanonicalRows, "spend"))
        /\ summary.total_revenue = SumSeq(FieldOf(CanonicalRows, "revenue"))

(* C9 *)

EmptyTableEndsInError ==
    (Cleaned /\ CanonicalRows = <<>>) =>
        /\ ~IsSet(insights) /\ ~IsSet(chart) /\ ~IsSet(report)
        /\ pc \in {"summarise", "insights", "error"}
        /\ Summarised => SelectionKeys \cap DOMAIN summary = {}

\* C9 as stated: the summary holds the five selection keys exactly when the
\* canonical table is non-empty, and a run on an empty table ends without
\* insights, chart or report.
C9_KeysIffNonEmptyTable ==
    /\ Summarised =>
          /\ SelectionKeys \subseteq DOMAIN summary <=> CanonicalRows # <<>>
          /\ SelectionKeys \cap DOMAIN summary # {} => SelectionKeys \subseteq DOMAIN summary
    /\ EmptyTableEndsInError

\* C9 amended: the summary holds the five selection keys exactly when some
\* record of the canonical table has a campaign identifier; the rest as
\* stated.
C9_KeysIffSomeCampaign ==
    /\ Summarised =>
          /\ SelectionKeys \subseteq DOMAIN summary <=> CampaignsOf(CanonicalRows) # {}
          /\ SelectionKeys \cap DOMAIN summary # {} => SelectionKeys \subseteq DOMAIN summary
    /\ (Summarised /\ ~(SelectionKeys \subseteq DOMAIN summary) /\ pc # "insights") =>
          pc = "error" /\ ~IsSet(insights) /\ ~IsSet(chart) /\ ~IsSet(report)
    /\ EmptyTableEndsInError

\* every row of a non-empty file was dropped, and generate_insights has
\* raised on the summary without the keys
C9_Witness ==
    /\ Summarised
    /\ raw.rows # <<>>
    /\ CanonicalRows = <<>>
    /\ pc = "error"

(* C10 *)

\* C10: without a mapped revenue column, a kept record whose coerced spend
\* was 0 has spend 0.01, revenue 0 and roas 0, and every other kept record
\* has the coerced spend, revenue 2.5 x spend and roas 2.5.
C10_SynthesizedBeforeGuard ==
    (Cleaned /\ "revenue" \notin DOMAIN colmap) =>
        \A j \in 1..Len(CanonicalRows) :
            LET r == CanonicalRows[j]
            IN  IF RawSpend(r.idx) = Num(0)
                THEN r.spend = Floor001 /\ r.revenue = Num(0) /\ r.roas = Num(0)
                ELSE /\ r.spend = RawSpend(r.idx)
                     /\ r.revenue = RMul(Rat(5, 2), r.spend)
                     /\ r.roas = Rat(5, 2)

\* a record kept with spend 0 beside one kept with another spend
C10_Witness ==
    /\ Cleaned
    /\ "revenue" \notin DOMAIN colmap
    /\ \E j, k \in 1..Len(CanonicalRows) :
          /\ RawSpend(CanonicalRows[j].idx) = Num(0)
          /\ RawSpend(CanonicalRows[k].idx) # Num(0)

====
